---- MODULE Spec2Model ----
(***************************************************************************)
(* Model of the MCP generator workflow (src/src/agent/graph.py).           *)
(*                                                                         *)
(* The compiled LangGraph is the linear chain                              *)
(*     generate -> deploy_dev -> react_agent -> END.                       *)
(* Each node receives the graph state, builds a local dict `updates` and   *)
(* returns it; LangGraph merges the returned dict into the graph state     *)
(* (last value wins, keys never written stay absent).  The graph state is  *)
(* the function `state` (key -> value); a key the run has not written is   *)
(* not in its domain, exactly as in the dict the nodes read.               *)
(*                                                                         *)
(* Strings are abstracted: input_data is a sequence of tokens (a blank,    *)
(* the two URL scheme prefixes, any other text); error messages are short  *)
(* strings naming the raise site.  `calls` is the history of the calls     *)
(* made on the collaborators, in order; `exc` is the exception the         *)
(* running node has caught, if any; `probe` is the last probe the agent    *)
(* made (the HTTP response it met and the result the tool gave back) while *)
(* that result is the agent's latest tool message.  `other` is a second    *)
(* invocation of the graph parked at an await (its graph state and the     *)
(* locals of its frame), if the process runs two.                          *)
(***************************************************************************)
EXTENDS Integers, Sequences, FiniteSets, TLC

VARIABLES state, updates, exc, pc, env, calls, repo_result, steps, probe, other

vars == <<state, updates, exc, pc, env, calls, repo_result, steps, probe, other>>

\* ---------------------------------------------------------------- bounds
\* largest caller-supplied max_iterations
MaxCap == 3
\* most tool calls the ReAct agent makes in one run (stands for the
\* recursion limit of the agent loop)
MaxAgentSteps == 2

\* ------------------------------------------------------------- constants
None == "None"

\* class InputType
OPENAPI == "openapi"
DESCRIPTION == "description"
InputType == {OPENAPI, DESCRIPTION}

\* class Phase
GENERATING == "generating"
DEPLOYING == "deploying"
TESTING == "testing"
REFINING == "refining"
PRODUCTION == "production"
COMPLETED == "completed"
FAILED == "failed"
Phase == {GENERATING, DEPLOYING, TESTING, REFINING, PRODUCTION, COMPLETED, FAILED}

\* the payloads a caller submits: empty, blank, "not-a-url", a URL, a URL
\* with surrounding blanks, text that only contains a URL
Payloads == {<<>>, <<" ">>, <<"x">>, <<"https://", "x">>,
             <<" ", "http://", "x", " ">>, <<"x", "http://">>}

\* the description is only interpolated into the prompt, so two
\* descriptions stand for all: the empty one and a non-empty one
Inputs ==
    ({OPENAPI} \X Payloads) \cup ({DESCRIPTION} \X {<<>>, <<"x">>})

\* the caps a caller submits: none, one, and the largest
Caps == {0, 1, MaxCap}

\* ------------------------------------------------------- dict operations
\* dict.get(k, default)
Get(d, k, default) == IF k \in DOMAIN d THEN d[k] ELSE default

\* d[k] = v on a dict
Put(d, k, v) == [x \in (DOMAIN d) \cup {k} |-> IF x = k THEN v ELSE d[x]]

\* {}
EmptyDict == [k \in {} |-> None]

\* LangGraph's merge of a node's returned dict into the graph state;
\* "react_result" is not a key of MCPGeneratorState and is not stored
StateKeys == {"input_type", "input_data", "project_id", "mcp_server_files",
              "repo_id", "dev_server_info", "validation_errors",
              "current_iteration", "max_iterations", "current_phase",
              "errors", "completed_at", "mcp_id"}

Merge(s, u) ==
    [k \in (DOMAIN s) \cup ((DOMAIN u) \cap StateKeys) |->
        IF k \in DOMAIN u THEN u[k] ELSE s[k]]

\* the fields of the graph state, as the callers read them from the result
current_phase == Get(state, "current_phase", None)
errors == Get(state, "errors", <<>>)
input_type == state["input_type"]
input_data == state["input_data"]
current_iteration == state["current_iteration"]
max_iterations == state["max_iterations"]
repo_id == Get(state, "repo_id", None)
completed_at == Get(state, "completed_at", None)
mcp_id == Get(state, "mcp_id", None)

\* ---------------------------------------------------------- str methods
\* str.strip()
RECURSIVE lstrip(_)
lstrip(s) == IF s # <<>> /\ Head(s) = " " THEN lstrip(Tail(s)) ELSE s

RECURSIVE rstrip(_)
rstrip(s) ==
    IF s # <<>> /\ s[Len(s)] = " " THEN rstrip(SubSeq(s, 1, Len(s) - 1)) ELSE s

strip(s) == rstrip(lstrip(s))

\* spec_url.startswith("http://") or spec_url.startswith("https://")
startswith_http(s) == s # <<>> /\ Head(s) \in {"http://", "https://"}

\* repository ids the host hands out
RepoIds == {"r1"}

\* the wall-clock seconds datetime.now() can fall in during a run
Seconds == {"20250101-000000", "20250101-000001"}

\* name=f"mcp-server-{datetime.now().strftime('%Y%m%d-%H%M%S')}"
repo_name(second) == "mcp-server-" \o second

\* repo_result before freestyle_create_repo has returned
NoRepo == [repo_id |-> None, name |-> None, project_files |-> <<>>]

\* no probe result is the agent's latest tool message
NoProbe == [response |-> [status |-> 0, json |-> FALSE], result |-> EmptyDict]

\* one invocation's own data: the graph state LangGraph keeps for it and
\* the locals of the node coroutine it is in
Context ==
    [state |-> state, updates |-> updates, exc |-> exc, pc |-> pc,
     calls |-> calls, repo_result |-> repo_result, steps |-> steps,
     probe |-> probe]

\* no second invocation
NoRun ==
    [state |-> EmptyDict, updates |-> EmptyDict, exc |-> None, pc |-> "none",
     calls |-> <<>>, repo_result |-> NoRepo, steps |-> 0, probe |-> NoProbe]

\* ------------------------------------------------------------------ Init
\* the state the callers hand to graph.ainvoke, and the process environment
Init ==
    /\ \E in \in Inputs, p \in {"", "proj"}, c \in Caps :
          state = [input_type |-> in[1], input_data |-> in[2], project_id |-> p,
                   validation_errors |-> <<>>, current_iteration |-> 0,
                   max_iterations |-> c, errors |-> <<>>]
    /\ env \in [FREESTYLE_API_KEY : BOOLEAN, MORPH_API_KEY : BOOLEAN,
                ANTHROPIC_API_KEY : BOOLEAN, SUPABASE : BOOLEAN]
    /\ updates = EmptyDict
    /\ exc = None
    /\ pc = "generate"
    /\ calls = <<>>
    /\ repo_result = NoRepo
    /\ steps = 0
    /\ probe = NoProbe
    /\ other = NoRun

\* -------------------------------------------------- generate_mcp_server
\* a timeout of the generator is swallowed and the node carries on
generate_except_swallows_timeout(u, msg) ==
    IF msg = "TimeoutExpired" THEN Put(u, "current_phase", DEPLOYING)
    ELSE Put(Put(u, "errors", Append(Get(state, "errors", <<>>),
                                     [phase |-> "generation", error |-> msg])),
             "current_phase", FAILED)

\* except Exception as e: of generate_mcp_server
generate_except(u, msg) ==
    Put(Put(u, "errors", Append(Get(state, "errors", <<>>),
                                [phase |-> "generation", error |-> msg])),
        "current_phase", FAILED)

\* the trimmed payload is written back into the state
generate_updates_write_back ==
    [current_phase |-> GENERATING, input_data |-> strip(state["input_data"])]

\* updates = {"current_phase": Phase.GENERATING}
generate_updates == [current_phase |-> GENERATING]

\* entry of the node up to the first await: URL validation for OPENAPI
generate_mcp_server ==
    /\ pc = "generate"
    /\ LET u0 == generate_updates
       IN IF state["input_type"] = OPENAPI
             /\ ~startswith_http(strip(state["input_data"]))
          THEN /\ exc' = "OpenAPI spec must be a valid URL"
               /\ updates' = generate_except(u0, "OpenAPI spec must be a valid URL")
               /\ pc' = "generate_return"
          ELSE /\ exc' = None
               /\ updates' = u0
               /\ pc' = "generate_call"
    /\ UNCHANGED <<state, env, calls, repo_result, steps, probe, other>>

\* outcomes of the artifact generator: the file bundle it produced (a dict,
\* in insertion order; it may be empty) or the exception it raised
Bundles == {<<>>, <<"package.json", "index.js">>}

\* subprocess.run of npx openapi-mcp-generator inside asyncio.to_thread
run_openapi_generator_failures ==
    {"openapi-mcp-generator failed", "TimeoutExpired"}

\* llm.ainvoke and json.loads of its answer
llm_failures == {"llm.ainvoke raised", "Failed to parse LLM response as JSON"}

\* the await of generate_mcp_server: the external generator (OPENAPI) or
\* the LLM (DESCRIPTION) is called and returns a bundle or raises
generate_call ==
    /\ pc = "generate_call"
    /\ LET tool == IF state["input_type"] = OPENAPI
                   THEN "run_openapi_generator" ELSE "llm"
           failures == IF state["input_type"] = OPENAPI
                       THEN run_openapi_generator_failures ELSE llm_failures
       IN /\ calls' = Append(calls, tool)
          /\ \/ \E files \in Bundles :
                  /\ updates' = Put(Put(updates, "mcp_server_files", files),
                                    "current_phase", DEPLOYING)
                  /\ exc' = None
             \/ \E msg \in failures :
                  /\ updates' = generate_except(updates, msg)
                  /\ exc' = msg
    /\ pc' = "generate_return"
    /\ UNCHANGED <<state, env, repo_result, steps, probe, other>>

\* return updates; the graph merges them and follows the edge to deploy_dev
generate_return ==
    /\ pc = "generate_return"
    /\ state' = Merge(state, updates)
    /\ updates' = EmptyDict
    /\ exc' = None
    /\ pc' = "deploy"
    /\ UNCHANGED <<env, calls, repo_result, steps, probe, other>>

\* ------------------------------------------------- deploy_to_dev_server
\* the handler returns a fresh dict and drops what the node had collected
deploy_except_discards_partial(u, msg) ==
    [current_phase |-> FAILED,
     errors |-> Append(Get(state, "errors", <<>>),
                       [phase |-> "deployment", error |-> msg])]

\* the handler adds no record when an earlier node has already failed
deploy_except_quiet_after_failure(u, msg) ==
    IF Get(state, "current_phase", None) = FAILED
    THEN Put(u, "current_phase", FAILED)
    ELSE Put(Put(u, "errors", Append(Get(state, "errors", <<>>),
                                     [phase |-> "deployment", error |-> msg])),
             "current_phase", FAILED)

\* the handler puts its record in front of the earlier ones
deploy_except_prepends(u, msg) ==
    Put(Put(u, "errors", <<[phase |-> "deployment", error |-> msg]>>
                         \o Get(state, "errors", <<>>)),
        "current_phase", FAILED)

\* the handler starts a fresh list instead of extending state["errors"]
deploy_except_overwrites(u, msg) ==
    Put(Put(u, "errors", <<[phase |-> "deployment", error |-> msg]>>),
        "current_phase", FAILED)

\* except Exception as e: of deploy_to_dev_server
deploy_except(u, msg) ==
    Put(Put(u, "errors", Append(Get(state, "errors", <<>>),
                                [phase |-> "deployment", error |-> msg])),
        "current_phase", FAILED)

\* the node does not look at FREESTYLE_API_KEY and hands whatever
\* os.getenv returned to the host client
deploy_to_dev_server_unchecked_key ==
    /\ pc = "deploy"
    /\ LET u0 == [current_phase |-> DEPLOYING]
       IN IF "mcp_server_files" \notin DOMAIN state
          THEN /\ exc' = "KeyError: mcp_server_files"
               /\ updates' = deploy_except(u0, "KeyError: mcp_server_files")
               /\ pc' = "deploy_return"
          ELSE /\ exc' = None
               /\ updates' = u0
               /\ pc' = "create_repo"
    /\ UNCHANGED <<state, env, calls, repo_result, steps, probe, other>>

\* entry of the node: the key check and the evaluation of the arguments of
\* freestyle_create_repo (state["mcp_server_files"] raises KeyError when
\* generation wrote no bundle)
deploy_to_dev_server ==
    /\ pc = "deploy"
    /\ LET u0 == [current_phase |-> DEPLOYING]
           msg == IF ~env.FREESTYLE_API_KEY
                  THEN "FREESTYLE_API_KEY environment variable required"
                  ELSE IF "mcp_server_files" \notin DOMAIN state
                  THEN "KeyError: mcp_server_files"
                  ELSE None
       IN IF msg # None
          THEN /\ exc' = msg
               /\ updates' = deploy_except(u0, msg)
               /\ pc' = "deploy_return"
          ELSE /\ exc' = None
               /\ updates' = u0
               /\ pc' = "create_repo"
    /\ UNCHANGED <<state, env, calls, repo_result, steps, probe, other>>

\* freestyle_create_repo: client.create_repository raises, or answers without
\* an id (raise), or answers with an id; the result carries the project files
freestyle_create_repo ==
    /\ pc = "create_repo"
    /\ calls' = Append(calls, "create_repository")
    /\ \/ \E id \in RepoIds, second \in Seconds :
            /\ repo_result' = [repo_id |-> id,
                               name |-> repo_name(second),
                               project_files |-> state["mcp_server_files"]]
            /\ updates' = Put(updates, "repo_id", id)
            /\ exc' = None
            /\ pc' = "request_dev_server"
       \/ \E msg \in {"create_repository raised",
                      "Could not find repo_id in response"} :
            /\ repo_result' = NoRepo
            /\ updates' = deploy_except(updates, msg)
            /\ exc' = msg
            /\ pc' = "deploy_return"
    /\ UNCHANGED <<state, env, steps, probe, other>>

\* the service process is started before the files are committed
dev_server_events_starts_first(rid, files) ==
    <<"request_dev_server">> \o
    (IF files # <<>>
     THEN [i \in 1..Len(files) |-> "write_file"] \o <<"exec", "commit_and_push">>
     ELSE <<>>)

\* the sandbox is requested a second time before the files are written
dev_server_events_retry(rid, files) ==
    <<"request_dev_server", "request_dev_server">> \o
    (IF files # <<>>
     THEN [i \in 1..Len(files) |-> "write_file"] \o <<"commit_and_push", "exec">>
     ELSE <<>>)

\* the calls freestyle_request_dev_server makes on the host, in order:
\* the request, then (only for a non-empty bundle) one write per file, the
\* commit and the process start
dev_server_events(rid, files) ==
    <<"request_dev_server">> \o
    (IF files # <<>>
     THEN [i \in 1..Len(files) |-> "write_file"] \o <<"commit_and_push", "exec">>
     ELSE <<>>)

\* what the host reports for the sandbox: each URL attribute may be missing
DevServers ==
    [ephemeral_url : {None, "dev-url"}, mcp_ephemeral_url : {None, "mcp-url"}]

\* the handle names the repository the sandbox reports, not the one asked for
dev_server_result_own_id(rid, ds) ==
    [ephemeral_url |-> ds.ephemeral_url,
     mcp_ephemeral_url |-> ds.mcp_ephemeral_url,
     repo_id |-> "sandbox-repo"]

\* the dict freestyle_request_dev_server returns: the URLs read off the
\* sandbox and the repo_id it was called with
dev_server_result(rid, ds) ==
    [ephemeral_url |-> ds.ephemeral_url,
     mcp_ephemeral_url |-> ds.mcp_ephemeral_url,
     repo_id |-> rid]

\* freestyle_request_dev_server: every host call may raise, which ends the
\* function after the calls made so far; otherwise the handle is returned
freestyle_request_dev_server ==
    /\ pc = "request_dev_server"
    /\ LET events == dev_server_events(repo_result.repo_id, repo_result.project_files)
       IN \/ \E ds \in DevServers :
               /\ calls' = calls \o events
               /\ updates' =
                    Put(Put(updates, "dev_server_info",
                            dev_server_result(repo_result.repo_id, ds)),
                        "current_phase", REFINING)
               /\ exc' = None
          \/ \E n \in 1..Len(events) :
               /\ calls' = calls \o SubSeq(events, 1, n)
               /\ updates' = deploy_except(updates, events[n] \o " raised")
               /\ exc' = events[n] \o " raised"
    /\ pc' = "deploy_return"
    /\ UNCHANGED <<state, env, repo_result, steps, probe, other>>

\* return updates; the graph merges them and follows the edge to react_agent
deploy_return ==
    /\ pc = "deploy_return"
    /\ state' = Merge(state, updates)
    /\ updates' = EmptyDict
    /\ exc' = None
    /\ repo_result' = NoRepo
    /\ pc' = "react"
    /\ UNCHANGED <<env, calls, steps, probe, other>>

\* ------------------------------------------------- react_agent_workflow
\* the handler tags its record with the phase of the node before it
react_except_mistagged(u, msg) ==
    Put(Put(u, "errors", Append(Get(state, "errors", <<>>),
                                [phase |-> "deployment", error |-> msg])),
        "current_phase", FAILED)

\* the handler stamps the end of the run on failure too
react_except_stamps(u, msg) ==
    Put(Put(Put(u, "errors", Append(Get(state, "errors", <<>>),
                                    [phase |-> "react_workflow", error |-> msg])),
            "current_phase", FAILED),
        "completed_at", "now")

\* except Exception as e: of react_agent_workflow (the outer handler)
react_except(u, msg) ==
    Put(Put(u, "errors", Append(Get(state, "errors", <<>>),
                                [phase |-> "react_workflow", error |-> msg])),
        "current_phase", FAILED)

\* a local default stands in for a missing MCP URL
mcp_url_defaults ==
    IF "dev_server_info" \in DOMAIN state
       /\ state["dev_server_info"].mcp_ephemeral_url # None
    THEN state["dev_server_info"].mcp_ephemeral_url
    ELSE "http://localhost"

\* the sandbox URL is taken when the handle has no MCP URL
mcp_url_falls_back ==
    IF "dev_server_info" \in DOMAIN state
    THEN IF state["dev_server_info"].mcp_ephemeral_url # None
         THEN state["dev_server_info"].mcp_ephemeral_url
         ELSE state["dev_server_info"].ephemeral_url
    ELSE None

\* dev_server_info.get("mcp_ephemeral_url") on state.get("dev_server_info", {})
mcp_url ==
    IF "dev_server_info" \in DOMAIN state
    THEN state["dev_server_info"].mcp_ephemeral_url ELSE None

\* entry of the node: the key check and the MCP URL check
react_agent_workflow ==
    /\ pc = "react"
    /\ LET u0 == [current_phase |-> REFINING]
           msg == IF ~env.MORPH_API_KEY \/ ~env.FREESTYLE_API_KEY
                  THEN "Both MORPH_API_KEY and FREESTYLE_API_KEY environment variables required"
                  ELSE IF mcp_url = None
                  THEN "No MCP server URL found in dev server info"
                  ELSE None
       IN IF msg # None
          THEN /\ exc' = msg
               /\ updates' = react_except(u0, msg)
               /\ pc' = "react_return"
          ELSE /\ exc' = None
               /\ updates' = u0
               /\ pc' = "mcp_connect"
    /\ UNCHANGED <<state, env, calls, repo_result, steps, probe, other>>

\* the import of the MCP adapters, MultiServerMCPClient(...).get_tools(), the
\* ANTHROPIC_API_KEY check, and the entry into react_agent.ainvoke; the
\* import or the connection may fail
mcp_get_tools ==
    /\ pc = "mcp_connect"
    /\ \E outcome \in {"ImportError", "connection failed", "connected"} :
          LET msg == IF outcome = "ImportError"
                     THEN "Failed to import MCP adapters"
                     ELSE IF outcome = "connection failed"
                     THEN "Failed to connect to MCP server"
                     ELSE IF ~env.ANTHROPIC_API_KEY
                     THEN "ReAct agent failed: ANTHROPIC_API_KEY environment variable is required"
                     ELSE None
              attempted == IF outcome = "ImportError" THEN <<>> ELSE <<"mcp_get_tools">>
          IN IF msg # None
             THEN /\ calls' = calls \o attempted
                  /\ exc' = msg
                  /\ updates' = react_except(updates, msg)
                  /\ pc' = "react_return"
             ELSE /\ calls' = calls \o <<"mcp_get_tools", "react_agent">>
                  /\ UNCHANGED <<updates, exc>>
                  /\ pc' = "agent"
    /\ UNCHANGED <<state, env, repo_result, steps, probe, other>>

\* what the initialize request of the probe can get back: an HTTP status
\* with a JSON or a non-JSON body, or no response (status 0: timeout,
\* connection failure)
ProbeResponses == [status : {0, 200, 201, 302, 404, 500}, json : BOOLEAN]

\* every 2xx status counts as a pass, and the body is not parsed
freestyle_test_mcp_server_accepts_2xx(resp) ==
    IF resp.status = 0 THEN [passed |-> FALSE, error |-> "transport error"]
    ELSE IF resp.status \in 200..299
    THEN [passed |-> TRUE, status_code |-> resp.status, response |-> "json"]
    ELSE [passed |-> FALSE, status_code |-> resp.status,
          error |-> "MCP initialization failed"]

\* the probe without its try/except: a transport error or a body that does
\* not parse leaves the tool as an exception
freestyle_test_mcp_server_unguarded(resp) ==
    IF resp.status = 0 THEN [exception |-> "transport error"]
    ELSE IF resp.status = 200
    THEN IF resp.json THEN [passed |-> TRUE, status_code |-> 200, response |-> "json"]
         ELSE [exception |-> "JSONDecodeError"]
    ELSE [passed |-> FALSE, status_code |-> resp.status,
          error |-> "MCP initialization failed"]

\* freestyle_test_mcp_server: the dict the tool returns. passed only for
\* status 200 whose body parses; any other status is reported with its
\* code; response.json() raising and transport errors land in the except
\* branch, which reports str(e)
freestyle_test_mcp_server(resp) ==
    IF resp.status = 0 THEN [passed |-> FALSE, error |-> "transport error"]
    ELSE IF resp.status = 200
    THEN IF resp.json THEN [passed |-> TRUE, status_code |-> 200, response |-> "json"]
         ELSE [passed |-> FALSE, error |-> "JSONDecodeError"]
    ELSE [passed |-> FALSE, status_code |-> resp.status,
          error |-> "MCP initialization failed"]

\* the entry of a probe in the call history
probe_call(result) ==
    IF Get(result, "passed", FALSE) THEN "probe:passed" ELSE "probe:failed"

\* the agent calls the probe tool
agent_probe ==
    /\ pc = "agent"
    /\ steps < MaxAgentSteps
    /\ \E resp \in ProbeResponses :
          LET result == freestyle_test_mcp_server(resp)
          IN /\ calls' = Append(calls, probe_call(result))
             /\ probe' = [response |-> resp, result |-> result]
    /\ steps' = steps + 1
    /\ UNCHANGED <<state, updates, exc, pc, env, repo_result, other>>

\* the agent calls morph_apply_edit, which returns the edited code or raises
\* (non-200 answer, no choices); the tool node reports a raise to the agent
agent_repair ==
    /\ pc = "agent"
    /\ steps < MaxAgentSteps
    /\ \E r \in {"morph_apply_edit:ok", "morph_apply_edit:raised"} :
          calls' = Append(calls, r)
    /\ steps' = steps + 1
    /\ probe' = NoProbe
    /\ UNCHANGED <<state, updates, exc, pc, env, repo_result, other>>

\* the agent calls freestyle_deploy_production, which always answers
agent_promote ==
    /\ pc = "agent"
    /\ steps < MaxAgentSteps
    /\ calls' = Append(calls, "deploy_production")
    /\ steps' = steps + 1
    /\ probe' = NoProbe
    /\ UNCHANGED <<state, updates, exc, pc, env, repo_result, other>>

\* the agent calls one of the sandbox's own MCP tools (readFile, exec, ...)
agent_mcp_tool ==
    /\ pc = "agent"
    /\ steps < MaxAgentSteps
    /\ calls' = Append(calls, "mcp_tool")
    /\ steps' = steps + 1
    /\ probe' = NoProbe
    /\ UNCHANGED <<state, updates, exc, pc, env, repo_result, other>>

\* react_agent.ainvoke raises (model error, recursion limit): re-raised
\* twice with context and caught by the outer handler
agent_raise ==
    /\ pc = "agent"
    /\ exc' = "ReAct agent failed: agent raised"
    /\ updates' = react_except(updates, "ReAct agent failed: agent raised")
    /\ pc' = "react_return"
    /\ probe' = NoProbe
    /\ UNCHANGED <<state, env, calls, repo_result, steps, other>>

\* react_agent.ainvoke returns
agent_finish ==
    /\ pc = "agent"
    /\ pc' = "save"
    /\ probe' = NoProbe
    /\ UNCHANGED <<state, updates, exc, env, calls, repo_result, steps, other>>

\* what the POST to the record store can get back: 201 with the inserted
\* row, 201 with a row that has no id, 201 with another body, another
\* status, or an exception of the HTTP client
SaveResponses ==
    {"201 row", "201 row without id", "201 no row", "not 201", "raised"}

\* the request is sent whether or not Supabase is configured
save_mcp_to_database_unconfigured_posts(configured, resp) ==
    IF resp = "201 row" THEN "mcp-1" ELSE None

\* the id is read from the body without looking at the status
save_mcp_to_database_unchecked_status(configured, resp) ==
    IF ~configured THEN None
    ELSE IF resp \in {"201 row", "not 201"} THEN "mcp-1" ELSE None

\* save_mcp_to_database: None without a request when Supabase is not
\* configured; otherwise one POST, answered by the record id (201 with a
\* row) or by None (other status, other body, exception)
save_mcp_to_database(configured, resp) ==
    IF ~configured THEN None
    ELSE IF resp = "201 row" THEN "mcp-1" ELSE None

\* a save that returned no id is recorded as a failure of the node
save_result_records_failure(u, id) ==
    IF id # None THEN Put(u, "mcp_id", id)
    ELSE Put(u, "errors", Append(Get(state, "errors", <<>>),
                                 [phase |-> "react_workflow",
                                  error |-> "database save failed"]))

\* if mcp_id: updates["mcp_id"] = mcp_id, else only a debug print
save_result(u, id) == IF id # None THEN Put(u, "mcp_id", id) ELSE u

\* the node reports the repairs of the agent as the iteration count
completed_counts_repairs(u) ==
    Put(Put(Put(u, "current_phase", COMPLETED), "completed_at", "now"),
        "current_iteration",
        Cardinality({i \in DOMAIN calls :
                        calls[i] \in {"morph_apply_edit:ok",
                                      "morph_apply_edit:raised"}}))

\* the run stops in the production phase, one short of COMPLETED
completed_stops_at_production(u) ==
    Put(Put(u, "current_phase", PRODUCTION), "completed_at", "now")

\* updates["current_phase"] = Phase.COMPLETED and updates["completed_at"]
\* (datetime.now().isoformat() is the constant "now")
completed(u) == Put(Put(u, "current_phase", COMPLETED), "completed_at", "now")

\* after the agent returned: the best-effort save, then COMPLETED
react_complete ==
    /\ pc = "save"
    /\ LET production_url ==
               IF "dev_server_info" \in DOMAIN state
               THEN state["dev_server_info"].ephemeral_url ELSE ""
       IN IF production_url \notin {None, ""} /\ Get(state, "project_id", "") # ""
          THEN \E resp \in SaveResponses :
                  LET outcome == IF env.SUPABASE THEN resp ELSE "not configured"
                      id == save_mcp_to_database(env.SUPABASE, resp)
                  IN /\ calls' = Append(calls, "save_mcp_to_database:" \o outcome)
                     /\ updates' = completed(save_result(updates, id))
          ELSE /\ calls' = calls
               /\ updates' = completed(updates)
    /\ pc' = "react_return"
    /\ UNCHANGED <<state, exc, env, repo_result, steps, probe, other>>

\* return updates; the graph merges them and follows the edge to END
react_return ==
    /\ pc = "react_return"
    /\ state' = Merge(state, updates)
    /\ updates' = EmptyDict
    /\ exc' = None
    /\ pc' = "done"
    /\ UNCHANGED <<env, calls, repo_result, steps, probe, other>>

\* workflow.add_node: the nodes of the compiled graph
Nodes == {"generate", "deploy_dev", "react_agent"}

\* the node of the graph the run is in (END once it has left the last one)
RunNode ==
    CASE pc \in {"generate", "generate_call", "generate_return"} -> "generate"
      [] pc \in {"deploy", "create_repo", "request_dev_server", "deploy_return"}
            -> "deploy_dev"
      [] pc \in {"react", "mcp_connect", "agent", "save", "react_return"}
            -> "react_agent"
      [] OTHER -> "__end__"

Next ==
    \/ generate_mcp_server
    \/ generate_call
    \/ generate_return
    \/ deploy_to_dev_server
    \/ freestyle_create_repo
    \/ freestyle_request_dev_server
    \/ deploy_return
    \/ react_agent_workflow
    \/ mcp_get_tools
    \/ agent_probe
    \/ agent_repair
    \/ agent_promote
    \/ agent_mcp_tool
    \/ agent_raise
    \/ agent_finish
    \/ react_complete
    \/ react_return


Spec == Init /\ [][Next]_vars
\* the run under the scheduling of the graph executor: a node that can take
\* a step takes it (every collaborator call returns or raises)
FairSpec == Spec /\ WF_vars(Next)

\* run_mcp_generator.main: the only cancellation a caller has is to interrupt
\* graph.ainvoke (KeyboardInterrupt, or cancellation of the task). Neither
\* is an Exception, so no node's except block runs: the invocation is
\* abandoned where it stands, no result is returned and main prints
\* "Generation cancelled by user".
cancel ==
    /\ pc \notin {"done", "cancelled"}
    /\ pc' = "cancelled"
    /\ UNCHANGED <<state, updates, exc, env, calls, repo_result, steps, probe, other>>

NextCancel ==
    \/ Next
    \/ cancel

\* the run with a caller that may interrupt it
CancelSpec == Init /\ [][NextCancel]_vars

\* `updates` is one module-level dict that every invocation writes
resumed_updates_shared(ctx) == updates

\* the dict `updates` a resumed node coroutine sees: the local of its own
\* frame
resumed_updates(ctx) == ctx.updates

\* the event loop leaves the running invocation at an await and resumes
\* the parked one; the process environment and the module-level objects
\* (llm, graph, SUPABASE_URL) are the same for both and are only read
switch ==
    /\ other.pc \notin {"none", "done"}
    /\ other' = Context
    /\ state' = other.state
    /\ updates' = resumed_updates(other)
    /\ exc' = other.exc
    /\ pc' = other.pc
    /\ calls' = other.calls
    /\ repo_result' = other.repo_result
    /\ steps' = other.steps
    /\ probe' = other.probe
    /\ UNCHANGED env

\* a caller's input state
input_state(in, p) ==
    [input_type |-> in[1], input_data |-> in[2], project_id |-> p,
     validation_errors |-> <<>>, current_iteration |-> 0,
     max_iterations |-> 3, errors |-> <<>>]

\* every key of the environment is set
AllSet ==
    [FREESTYLE_API_KEY |-> TRUE, MORPH_API_KEY |-> TRUE,
     ANTHROPIC_API_KEY |-> TRUE, SUPABASE |-> TRUE]

\* the pairs of invocations run side by side: a full run beside one that
\* is rejected at validation, and two runs that both generate and deploy
\* and stop at the agent's key check
ConcurrentRuns ==
    {[a |-> <<OPENAPI, <<"https://", "x">>>>, b |-> <<OPENAPI, <<"x">>>>,
      env |-> AllSet],
     [a |-> <<OPENAPI, <<"https://", "x">>>>, b |-> <<DESCRIPTION, <<"x">>>>,
      env |-> [AllSet EXCEPT !.MORPH_API_KEY = FALSE]]}

\* two graph.ainvoke calls in one process, the second not yet started
ConcurrentInit ==
    /\ \E r \in ConcurrentRuns :
          /\ state = input_state(r.a, "proj")
          /\ other = [NoRun EXCEPT !.state = input_state(r.b, ""),
                                   !.pc = "generate"]
          /\ env = r.env
    /\ updates = EmptyDict
    /\ exc = None
    /\ pc = "generate"
    /\ calls = <<>>
    /\ repo_result = NoRepo
    /\ steps = 0
    /\ probe = NoProbe

NextConcurrent ==
    \/ Next
    \/ switch

ConcurrentSpec == ConcurrentInit /\ [][NextConcurrent]_vars

\* ---------------------------------------------------------------- claims
Range(f) == {f[i] : i \in DOMAIN f}

Count(f, S) == Cardinality({i \in DOMAIN f : f[i] \in S})

IsPrefix(a, b) == Len(a) <= Len(b) /\ SubSeq(b, 1, Len(a)) = a

Repairs == {"morph_apply_edit:ok", "morph_apply_edit:raised"}

Collaborators == Range(calls)

TerminalStaysPut ==
    current_phase \in {FAILED, COMPLETED} =>
        (current_phase' = current_phase /\ errors' = errors /\ calls' = calls)

\* C1: once current_phase is Failed or Completed, no later step changes
\* current_phase, appends to errors or invokes a collaborator.
C1_TerminalAbsorbing == [][TerminalStaysPut]_vars

\* C2: a run is Completed only if a probe returned passed = true and the
\* production promoter was invoked after it.
C2_CompletedNeedsProbeAndPromotion ==
    current_phase = COMPLETED =>
        \E i, j \in 1..Len(calls) :
            i < j /\ calls[i] = "probe:passed" /\ calls[j] = "deploy_production"

\* C3: for a cap c >= 1, a run whose probes all fail ends Failed with an
\* IterationExhausted error, current_iteration = c and exactly c repairs.
C3_ExhaustionAtCap ==
    (/\ pc = "done"
     /\ max_iterations >= 1
     /\ "probe:failed" \in Collaborators
     /\ "probe:passed" \notin Collaborators)
    => /\ current_phase = FAILED
       /\ \E i \in 1..Len(errors) : errors[i].error = "IterationExhausted"
       /\ current_iteration = max_iterations
       /\ Count(calls, Repairs) = max_iterations

\* C4: current_iteration never exceeds max_iterations, and the cap (>= 1)
\* is a ceiling on the number of repair invocations of the run.
C4_CapIsCeiling ==
    max_iterations >= 1 =>
        /\ current_iteration <= max_iterations
        /\ Count(calls, Repairs) <= max_iterations

\* C5: every repair attempt, failed ones included, adds one to the iteration
\* count: the final count is the number of repair attempts of the run.
C5_RepairIncrementsCount ==
    pc = "done" => current_iteration = Count(calls, Repairs)

\* C6: every run terminates, and in its final state current_phase is
\* Completed or Failed.
C6_Terminates == <>(pc = "done" /\ current_phase \in {COMPLETED, FAILED})

C6_Witness ==
    /\ pc = "done"
    /\ "probe:failed" \in Collaborators
    /\ Collaborators \cap Repairs # {}

ErrorsExtended == IsPrefix(errors, errors')

\* C7: across every step the previous errors list is a prefix of the new one.
C7_ErrorsAppendOnly == [][ErrorsExtended]_vars

C7_Witness == Len(errors) = 3

\* the tag each node writes into its error records
PhaseTag(p) ==
    CASE p = "generate_return" -> "generation"
      [] p = "deploy_return" -> "deployment"
      [] p = "react_return" -> "react_workflow"

HandlerReturnRecords ==
    (pc \in {"generate_return", "deploy_return", "react_return"} /\ pc' # pc) =>
        IF exc # None
        THEN /\ errors' = Append(errors, [phase |-> PhaseTag(pc), error |-> exc])
             /\ current_phase' = FAILED
        ELSE /\ errors' = errors
             /\ current_phase' # FAILED

\* C8: a handler that fails appends exactly one record, tagged with its
\* phase and carrying the failure's message, and returns with current_phase
\* Failed; a handler that succeeds appends none.
C8_OneRecordPerFailure == [][HandlerReturnRecords]_vars

C8_Witness ==
    /\ pc = "done"
    /\ Len(errors) = 1
    /\ errors[1].phase = "react_workflow"
    /\ "probe:failed" \in Collaborators

\* C9: a run on an empty payload, of either kind, ends Failed with exactly
\* one error record and without any collaborator call.
C9_EmptyPayloadRejected ==
    (pc = "done" /\ input_data = <<>>) =>
        /\ current_phase = FAILED
        /\ Len(errors) = 1
        /\ calls = <<>>

\* C10: a run on an OPENAPI payload that is no http/https URL ends Failed
\* with exactly one error record, no repo_id, no dev_server_info and no
\* collaborator call.
C10_BadUrlRejected ==
    (pc = "done" /\ input_type = OPENAPI /\ ~startswith_http(strip(input_data))) =>
        /\ current_phase = FAILED
        /\ Len(errors) = 1
        /\ "repo_id" \notin DOMAIN state
        /\ "dev_server_info" \notin DOMAIN state
        /\ calls = <<>>
\* the calls of save_mcp_to_database that sent a request and got no record
SaveFailures ==
    {"save_mcp_to_database:" \o r : r \in SaveResponses \ {"201 row"}}

\* every call of save_mcp_to_database, whatever came of it
SaveCalls ==
    {"save_mcp_to_database:" \o r : r \in SaveResponses \cup {"not configured"}}

\* C11: a run whose record store call failed (exception, status other than
\* 201, unexpected body) is still Completed, has completed_at set, and has
\* no record in errors.
C11_SaveFailureKeepsCompleted ==
    (pc = "done" /\ Collaborators \cap SaveFailures # {}) =>
        /\ current_phase = COMPLETED
        /\ completed_at # None
        /\ errors = <<>>

C11_Witness ==
    /\ pc = "done"
    /\ "save_mcp_to_database:raised" \in Collaborators
    /\ current_phase = COMPLETED

\* C12: save_mcp_to_database is called at most once in a run and only in a
\* run that ends Completed; mcp_id is present only if that call got the
\* record back.
C12_SaveOnceOnCompleted ==
    /\ Count(calls, SaveCalls) <= 1
    /\ (pc = "done" /\ Collaborators \cap SaveCalls # {}) => current_phase = COMPLETED
    /\ "mcp_id" \in DOMAIN state =>
           (mcp_id # None /\ "save_mcp_to_database:201 row" \in Collaborators)

C12_Witness ==
    /\ pc = "done"
    /\ mcp_id = "mcp-1"
    /\ Count(calls, SaveCalls) = 1
\* C13: completed_at is set only together with Completed: whenever it is
\* present the phase is Completed, and a run that ends Failed has none.
C13_CompletedAtOnlyOnCompleted ==
    /\ "completed_at" \in DOMAIN state => current_phase = COMPLETED
    /\ (pc = "done" /\ current_phase = FAILED) => completed_at = None

C13_Witness == pc = "done" /\ completed_at = "now" /\ current_phase = COMPLETED

\* the transition table of the phases; the phase of a run that has not
\* returned from its first handler is None (Idle), and the Promoting state
\* is Phase.PRODUCTION
PhaseEdges ==
    {<<None, GENERATING>>, <<None, DEPLOYING>>, <<GENERATING, DEPLOYING>>,
     <<DEPLOYING, TESTING>>, <<TESTING, PRODUCTION>>, <<TESTING, REFINING>>,
     <<REFINING, TESTING>>, <<PRODUCTION, COMPLETED>>}
    \cup ({None, GENERATING, DEPLOYING, TESTING, REFINING, PRODUCTION} \X {FAILED})

PhaseStepInTable ==
    current_phase' # current_phase => <<current_phase, current_phase'>> \in PhaseEdges

\* C14: every change of current_phase is an edge of the transition table
\* (a successful deployment leads to Testing, Completed is entered only
\* from Promoting).
C14_PhaseChangesFollowTable == [][PhaseStepInTable]_vars

Generators == {"run_openapi_generator", "llm"}

\* C15: in one run the artifact generator, repository creation and the
\* sandbox request are each invoked at most once, whatever their outcome.
C15_NoSelfRetry ==
    /\ Count(calls, Generators) <= 1
    /\ Count(calls, {"create_repository"}) <= 1
    /\ Count(calls, {"request_dev_server"}) <= 1

C15_Witness ==
    /\ pc = "done"
    /\ current_phase = FAILED
    /\ Count(calls, Generators) = 1
    /\ Count(calls, {"create_repository"}) = 1
    /\ Count(calls, {"request_dev_server"}) = 1
\* every call of kind b in the history comes after a call of a kind in A
Preceded(A, b) ==
    \A i \in 1..Len(calls) :
        calls[i] = b => \E j \in 1..(i - 1) : calls[j] \in A

AgentCalls ==
    {"mcp_get_tools", "react_agent", "probe:passed", "probe:failed",
     "deploy_production", "mcp_tool"} \cup Repairs

\* C16: the repository is created only after generation produced a bundle,
\* the sandbox is requested only after a repository id was obtained, and
\* the test/repair agent is started only on a deployment handle with a
\* non-empty mcp_ephemeral_url.
C16_PhasesConsumeEarlierOutputs ==
    /\ "create_repository" \in Collaborators =>
           (Preceded(Generators, "create_repository")
            /\ "mcp_server_files" \in DOMAIN state)
    /\ "request_dev_server" \in Collaborators =>
           (Preceded({"create_repository"}, "request_dev_server")
            /\ (repo_result.repo_id # None \/ repo_id # None))
    /\ Collaborators \cap AgentCalls # {} =>
           ("dev_server_info" \in DOMAIN state
            /\ state["dev_server_info"].mcp_ephemeral_url \notin {None, ""})

C16_Witness ==
    /\ pc = "done"
    /\ "deploy_production" \in Collaborators
    /\ "create_repository" \in Collaborators

InputUntouched == input_type' = input_type /\ input_data' = input_data

\* C17: input_type and input_data keep their initial values in every step
\* of a run (validation trims a copy and never writes it back).
C17_InputImmutable == [][InputUntouched]_vars

C17_Witness ==
    /\ pc = "done"
    /\ current_phase = COMPLETED
    /\ input_data = <<" ", "http://", "x", " ">>

\* C18: a run started with max_iterations = 0 is rejected at validation: it
\* calls no collaborator and ends Failed.
C18_ZeroCapRejected ==
    max_iterations = 0 =>
        /\ calls = <<>>
        /\ pc = "done" => current_phase = FAILED

GeneratorTimeoutHandled ==
    (pc = "generate_return" /\ pc' # pc /\ exc = "TimeoutExpired") =>
        /\ errors' = Append(errors, [phase |-> "generation", error |-> "TimeoutExpired"])
        /\ current_phase' = FAILED
        /\ "mcp_server_files" \notin DOMAIN state'

\* C19: when the external generator exceeds its timeout, generate_mcp_server
\* appends one record tagged generation, returns Failed and sets no
\* mcp_server_files.
C19_GeneratorTimeoutIsFailure == [][GeneratorTimeoutHandled]_vars

C19_Witness ==
    /\ pc = "deploy"
    /\ errors = <<[phase |-> "generation", error |-> "TimeoutExpired"]>>
    /\ current_phase = FAILED

Cancelled == \E i \in 1..Len(errors) : errors[i].error = "Cancelled"

\* C20: a run stopped by the caller's cancellation ends Failed with a
\* Cancelled error record.
C20_CancelEndsFailed ==
    pc = "cancelled" => (current_phase = FAILED /\ Cancelled)

\* C21: the probe never raises: for a response outside 2xx and for a
\* transport error (no response) it returns passed = false together with
\* the status code, respectively the error detail.
C21_ProbeNeverRaises ==
    probe # NoProbe =>
        /\ "exception" \notin DOMAIN probe.result
        /\ probe.response.status \notin 200..299 =>
               /\ Get(probe.result, "passed", TRUE) = FALSE
               /\ IF probe.response.status = 0
                  THEN "error" \in DOMAIN probe.result
                  ELSE Get(probe.result, "status_code", 0) = probe.response.status

C21_Witness ==
    /\ pc = "agent"
    /\ probe.response.status = 0
    /\ probe.result = [passed |-> FALSE, error |-> "transport error"]

\* the calls of save_mcp_to_database that sent a request
SaveRequests == {"save_mcp_to_database:" \o r : r \in SaveResponses}

\* persistence is disabled: no record store configuration or no project id
PersistenceDisabled == ~env.SUPABASE \/ Get(state, "project_id", "") = ""

\* C22: without a record store configuration or without a project id,
\* persistence is silently off: no request is sent, the save step raises
\* nothing and records no error, the run that reached it ends Completed,
\* and mcp_id stays unset.
C22_MissingConfigDisablesSave ==
    PersistenceDisabled =>
        /\ Collaborators \cap SaveRequests = {}
        /\ "mcp_id" \notin DOMAIN state
        /\ (pc = "react_return" /\ exc = None) =>
               /\ updates["current_phase"] = COMPLETED
               /\ "errors" \notin DOMAIN updates
               /\ "mcp_id" \notin DOMAIN updates
        /\ (pc = "done" /\ "react_agent" \in Collaborators
                /\ errors = <<>>) => current_phase = COMPLETED

C22_Witness ==
    /\ pc = "done"
    /\ ~env.SUPABASE
    /\ "save_mcp_to_database:not configured" \in Collaborators
    /\ current_phase = COMPLETED
    /\ mcp_id = None

\* freestyle_request_dev_server has returned the handle to the node
HandleReturned == pc = "deploy_return" /\ "dev_server_info" \in DOMAIN updates

\* C23: when a non-empty bundle is handed to the sandbox request, the
\* handle is returned only after, in this order, one write per file, one
\* commit-and-push and the start of the service process; the process is
\* never started before the commit.
C23_WriteCommitStartBeforeHandle ==
    /\ Preceded({"commit_and_push"}, "exec")
    /\ Preceded({"write_file"}, "commit_and_push")
    /\ (HandleReturned /\ repo_result.project_files # <<>>) =>
           LET n == Len(repo_result.project_files)
               k == Len(calls)
           IN /\ k >= n + 3
              /\ calls[k] = "exec"
              /\ calls[k - 1] = "commit_and_push"
              /\ \A i \in 1..n : calls[k - 1 - i] = "write_file"
              /\ calls[k - 2 - n] = "request_dev_server"
              /\ Count(calls, {"write_file"}) = n
              /\ Count(calls, {"commit_and_push"}) = 1
              /\ Count(calls, {"exec"}) = 1

C23_Witness ==
    /\ HandleReturned
    /\ repo_result.project_files = <<"package.json", "index.js">>
    /\ Count(calls, {"write_file"}) = 2

\* a dict that holds a deployment handle also holds the repository id the
\* host handed out, and the handle names that id
HandleNamesRepo(d) ==
    "dev_server_info" \in DOMAIN d =>
        /\ "repo_id" \in DOMAIN d
        /\ d["repo_id"] \in RepoIds
        /\ d["dev_server_info"].repo_id = d["repo_id"]

\* C24: the id returned by repository creation is the one the sandbox is
\* requested for and the one the handle carries: dev_server_info present
\* implies repo_id present and equal; a creation that yields no id fails
\* the deployment without a sandbox request and without a handle.
C24_HandleCarriesRepoId ==
    /\ HandleNamesRepo(state)
    /\ HandleNamesRepo(updates)
    /\ pc = "request_dev_server" => repo_result.repo_id = updates["repo_id"]
    /\ (pc = "deploy_return" /\ exc = "Could not find repo_id in response") =>
           /\ updates["current_phase"] = FAILED
           /\ "repo_id" \notin DOMAIN updates
           /\ "dev_server_info" \notin DOMAIN updates
           /\ "request_dev_server" \notin Collaborators

C24_Witness ==
    /\ pc = "done"
    /\ "dev_server_info" \in DOMAIN state
    /\ state["dev_server_info"].repo_id = "r1"
    /\ repo_id = "r1"

\* the first probe of the run passed
FirstProbePassed ==
    \E i \in 1..Len(calls) :
        /\ calls[i] = "probe:passed"
        /\ \A j \in 1..(i - 1) : calls[j] # "probe:failed"

\* react_agent.ainvoke did not raise (the model answered every turn)
AgentDidNotRaise ==
    \A i \in 1..Len(errors) : errors[i].error # "ReAct agent failed: agent raised"

\* C25: a run on a valid https URL with cap 3, in which generation returned
\* a bundle, deployment returned a handle, the first probe passed and no
\* collaborator failed, ends Completed with current_iteration = 0, no error
\* record and no repair.
C25_HappyPath ==
    (/\ pc = "done"
     /\ input_type = OPENAPI
     /\ input_data = <<"https://", "x">>
     /\ max_iterations = 3
     /\ Get(state, "mcp_server_files", <<>>) = <<"package.json", "index.js">>
     /\ "dev_server_info" \in DOMAIN state
     /\ FirstProbePassed
     /\ AgentDidNotRaise)
    => /\ current_phase = COMPLETED
       /\ current_iteration = 0
       /\ errors = <<>>
       /\ Count(calls, Repairs) = 0

\* what holds of an invocation that runs alone: the locals of its frame are
\* the ones its own position, graph state and caught exception determine,
\* and its final state is the one its own call history determines
RunAlone(ctx) ==
    LET u == ctx.updates
        st == ctx.state
        q == ctx.pc
        made == Range(ctx.calls)
    IN /\ q \in {"generate", "deploy", "react", "done"} =>
              (u = EmptyDict /\ ctx.exc = None)
       /\ q = "generate_call" => u = [current_phase |-> GENERATING]
       /\ q = "create_repo" => u = [current_phase |-> DEPLOYING]
       /\ q = "request_dev_server" =>
              u = [current_phase |-> DEPLOYING, repo_id |-> ctx.repo_result.repo_id]
       /\ q \in {"mcp_connect", "agent", "save"} => u = [current_phase |-> REFINING]
       /\ q \in {"generate_return", "deploy_return", "react_return"} =>
              IF ctx.exc # None
              THEN /\ u["current_phase"] = FAILED
                   /\ u["errors"] = Append(Get(st, "errors", <<>>),
                                           [phase |-> PhaseTag(q), error |-> ctx.exc])
              ELSE "errors" \notin DOMAIN u
       /\ q = "done" =>
              /\ st["current_phase"] \in {COMPLETED, FAILED}
              /\ st["current_phase"] = COMPLETED <=> "completed_at" \in DOMAIN st
              /\ st["current_phase"] = COMPLETED <=> st["errors"] = <<>>
              /\ "mcp_server_files" \in DOMAIN st => made \cap Generators # {}
              /\ "repo_id" \in DOMAIN st <=> "request_dev_server" \in made
              /\ "dev_server_info" \in DOMAIN st =>
                     st["dev_server_info"].repo_id = st["repo_id"]
              /\ "mcp_id" \in DOMAIN st <=> "save_mcp_to_database:201 row" \in made

\* the parked invocation changes only by being resumed exactly as it was
\* parked, while the running one is parked exactly as it stands
ParkedUntouched ==
    other' # other => (other' = Context /\ Context' = other)

Isolated == ParkedUntouched /\ RunAlone(Context') /\ RunAlone(other')

\* C26: two invocations running side by side share no mutable state: no
\* step of one changes the other, each resumes with exactly the state and
\* locals it was parked with, and every state either goes through,
\* its final state included, is one of a run on its own.
C26_RunsAreIsolated == [][Isolated]_vars

C26_Witness ==
    /\ pc = "done"
    /\ other.pc = "done"
    /\ current_phase = COMPLETED
    /\ Len(other.state["errors"]) = 3

\* the tag of the handler that failed first: generation leaves no bundle
\* when it fails, deployment no handle
FirstFailed ==
    IF "mcp_server_files" \notin DOMAIN state THEN "generation"
    ELSE IF "dev_server_info" \notin DOMAIN state THEN "deployment"
    ELSE "react_workflow"

\* C27: a run that ends Failed has a non-empty errors list whose first
\* record is tagged with the phase of the handler that failed first.
C27_FirstRecordNamesFirstFailure ==
    (pc = "done" /\ current_phase = FAILED) =>
        /\ errors # <<>>
        /\ errors[1].phase = FirstFailed

C27_Witness ==
    /\ pc = "done"
    /\ current_phase = FAILED
    /\ Len(errors) = 2
    /\ errors[1].phase = "deployment"

\* C28: the compiled graph has a node for each step of the state machine:
\* classify, generate, deploy, test, refine, deploy_prod, complete, failed.
\* A run is at every moment in one of the graph's nodes or past the last.
C28_GraphHasEightNodes ==
    /\ RunNode \in Nodes \cup {"__end__"}
    /\ {"classify", "generate", "deploy", "test", "refine", "deploy_prod",
        "complete", "failed"} \subseteq Nodes

\* the phase tags of the error records, in order
Tags == [i \in 1..Len(errors) |-> errors[i].phase]

\* C29: a failure cascades through the later nodes: a run whose generation
\* failed ends Failed with exactly the records generation, deployment,
\* react_workflow; one whose deployment failed after a successful
\* generation with exactly deployment, react_workflow; one in which only
\* react_agent_workflow failed with exactly one record.
C29_FailureCascade ==
    pc = "done" =>
        /\ "mcp_server_files" \notin DOMAIN state =>
               /\ current_phase = FAILED
               /\ Tags = <<"generation", "deployment", "react_workflow">>
        /\ ("mcp_server_files" \in DOMAIN state
                /\ "dev_server_info" \notin DOMAIN state) =>
               /\ current_phase = FAILED
               /\ Tags = <<"deployment", "react_workflow">>
        /\ ("mcp_server_files" \in DOMAIN state
                /\ "dev_server_info" \in DOMAIN state
                /\ current_phase = FAILED) =>
               Tags = <<"react_workflow">>

C29_Witness ==
    /\ pc = "done"
    /\ Tags = <<"generation", "deployment", "react_workflow">>
    /\ errors[2].error = "KeyError: mcp_server_files"

\* C30: a run that ends Completed has no error record and has its bundle,
\* its repository id and its deployment handle, the handle with a
\* non-empty mcp_ephemeral_url: Completed is never reported for a run in
\* which generation or deployment failed.
C30_CompletedHasAllOutputs ==
    (pc = "done" /\ current_phase = COMPLETED) =>
        /\ errors = <<>>
        /\ {"mcp_server_files", "repo_id", "dev_server_info"} \subseteq DOMAIN state
        /\ repo_id \in RepoIds
        /\ state["dev_server_info"].mcp_ephemeral_url \notin {None, ""}

C30_Witness ==
    /\ pc = "done"
    /\ current_phase = COMPLETED
    /\ state["mcp_server_files"] = <<"package.json", "index.js">>
    /\ state["dev_server_info"] =
           [ephemeral_url |-> "dev-url", mcp_ephemeral_url |-> "mcp-url",
            repo_id |-> "r1"]

\* C31: two runs whose deployments overlap never ask the host for a
\* repository of the same name.
C31_RepoNamesUnique ==
    (pc = "request_dev_server" /\ other.pc = "request_dev_server") =>
        repo_result.name # other.repo_result.name

\* C32: the probe returns passed = true exactly when the initialize
\* request was answered with status 200 and a body that parses as JSON;
\* another 2xx, a 3xx-5xx, a 200 whose body does not parse and a
\* transport error all give passed = false.
C32_PassedIffOkJson ==
    probe # NoProbe =>
        /\ "passed" \in DOMAIN probe.result
        /\ probe.result["passed"] <=>
               (probe.response.status = 200 /\ probe.response.json)
        /\ calls[Len(calls)] =
               (IF probe.response.status = 200 /\ probe.response.json
                THEN "probe:passed" ELSE "probe:failed")

C32_Witness ==
    /\ pc = "agent"
    /\ probe.response = [status |-> 201, json |-> TRUE]
    /\ probe.result["passed"] = FALSE
    /\ calls[Len(calls)] = "probe:failed"

\* the calls deploy_to_dev_server makes on the repository and sandbox host
DeployCalls ==
    {"create_repository", "request_dev_server", "write_file",
     "commit_and_push", "exec"}

NoFreestyleKey == "FREESTYLE_API_KEY environment variable required"

NoAgentKeys ==
    "Both MORPH_API_KEY and FREESTYLE_API_KEY environment variables required"

\* C33: a missing credential fails the node before it calls anything:
\* without FREESTYLE_API_KEY no repository is created and no sandbox
\* requested, without MORPH_API_KEY or FREESTYLE_API_KEY no MCP connection
\* is opened and no agent, probe, repair or promotion runs; the node
\* appends exactly one record and returns Failed.
C33_MissingKeyFailsBeforeCalls ==
    /\ ~env.FREESTYLE_API_KEY =>
           /\ Collaborators \cap DeployCalls = {}
           /\ pc = "deploy_return" =>
                  /\ updates["current_phase"] = FAILED
                  /\ updates["errors"] =
                         Append(errors, [phase |-> "deployment",
                                         error |-> NoFreestyleKey])
    /\ (~env.MORPH_API_KEY \/ ~env.FREESTYLE_API_KEY) =>
           /\ Collaborators \cap AgentCalls = {}
           /\ pc = "react_return" =>
                  /\ updates["current_phase"] = FAILED
                  /\ updates["errors"] =
                         Append(errors, [phase |-> "react_workflow",
                                         error |-> NoAgentKeys])

C33_Witness ==
    /\ pc = "done"
    /\ ~env.FREESTYLE_API_KEY
    /\ "mcp_server_files" \in DOMAIN state
    /\ Len(errors) = 2
    /\ errors[1].error = NoFreestyleKey
    /\ errors[2].error = NoAgentKeys

\* the keys only generation may write
GenerationKeys == {"mcp_server_files", "current_iteration", "max_iterations"}

\* a step leaves the iteration fields alone, and a step of deploy_dev or
\* react_agent leaves the bundle alone and puts none of the three keys
\* into the dict it will return
FrameKept ==
    /\ current_iteration' = current_iteration
    /\ max_iterations' = max_iterations
    /\ RunNode \in {"deploy_dev", "react_agent"} =>
           /\ "mcp_server_files" \in DOMAIN state' <=>
                  "mcp_server_files" \in DOMAIN state
           /\ "mcp_server_files" \in DOMAIN state =>
                  state'["mcp_server_files"] = state["mcp_server_files"]
           /\ DOMAIN updates' \cap GenerationKeys = {}

\* C34: deploy_to_dev_server and react_agent_workflow never write
\* mcp_server_files, current_iteration or max_iterations: the bundle stays
\* the one generation produced and the two counters keep their initial
\* values, whatever the agent did.
C34_LaterPhasesKeepFrame == [][FrameKept]_vars

C34_Witness ==
    /\ pc = "done"
    /\ current_phase = COMPLETED
    /\ Collaborators \cap Repairs # {}
    /\ current_iteration = 0
    /\ max_iterations = MaxCap
    /\ state["mcp_server_files"] = <<"package.json", "index.js">>

\* the sandbox request was made and gave no handle
SandboxRequestFailed ==
    "request_dev_server" \in Collaborators /\ "dev_server_info" \notin DOMAIN state

\* C35: when the repository was created and the sandbox request failed, the
\* run ends Failed with repo_id set and dev_server_info unset, and
\* react_agent_workflow makes no connection, agent or probe call: it fails
\* at its entry, on the missing MCP URL when its keys are set.
C35_PartialHandleAfterSandboxFailure ==
    (pc = "done" /\ SandboxRequestFailed) =>
        /\ repo_id \in RepoIds
        /\ current_phase = FAILED
        /\ Collaborators \cap AgentCalls = {}
        /\ Len(errors) = 2
        /\ errors[1].phase = "deployment"
        /\ errors[2] =
               [phase |-> "react_workflow",
                error |-> IF env.MORPH_API_KEY
                          THEN "No MCP server URL found in dev server info"
                          ELSE NoAgentKeys]

C35_Witness ==
    /\ pc = "done"
    /\ repo_id = "r1"
    /\ "dev_server_info" \notin DOMAIN state
    /\ errors[1].error = "commit_and_push raised"
    /\ errors[2].error = "No MCP server URL found in dev server info"
====
